---- MODULE Spec2Model ----
(***************************************************************************)
(* A model of AIStudioMCPServer (src/src/index.ts): the CallTool request   *)
(* handler, the two tools generate_content and convert_pdf_to_markdown,    *)
(* the file ingestion loop processFiles, getMimeType, and the backend call *)
(* genAI.models.generateContent seen as an external collaborator.          *)
(*                                                                         *)
(* Text is a sequence of strings (its pieces in order); a path, a file     *)
(* name and a base64 text are sequences of one-character strings.  An      *)
(* optional field of a JavaScript object is a field the record may lack.   *)
(***************************************************************************)
EXTENDS Integers, Sequences, FiniteSets, TLC

(***************************************************************************)
(* Bounds of the model.                                                    *)
(***************************************************************************)
\* longest files array of a request
MaxBatch == 3
\* the value of GEMINI_MAX_FILES in the modelled process
EnvMaxFiles == 2
\* the largest value of GEMINI_MAX_TOTAL_FILE_SIZE in the modelled processes
EnvMaxTotalFileSize == 3
\* the value of GEMINI_TIMEOUT, in clock ticks
EnvTimeout == 2

\* the invocation slots of the server (concurrent CallTool requests)
Invs == {"inv1", "inv2"}

(***************************************************************************)
(* Strings of characters.                                                  *)
(***************************************************************************)
UpperCase ==
  << "A", "B", "C", "D", "E", "F", "G", "H", "I", "J", "K", "L", "M",
     "N", "O", "P", "Q", "R", "S", "T", "U", "V", "W", "X", "Y", "Z" >>

LowerCase ==
  << "a", "b", "c", "d", "e", "f", "g", "h", "i", "j", "k", "l", "m",
     "n", "o", "p", "q", "r", "s", "t", "u", "v", "w", "x", "y", "z" >>

\* String.prototype.toLowerCase, one character
toLowerChar(c) ==
  IF \E k \in 1..Len(UpperCase) : UpperCase[k] = c
    THEN LowerCase[CHOOSE k \in 1..Len(UpperCase) : UpperCase[k] = c]
    ELSE c

\* String.prototype.toLowerCase
toLowerCase(s) == [k \in 1..Len(s) |-> toLowerChar(s[k])]

\* the positions of character c in s
Positions(s, c) == {k \in 1..Len(s) : s[k] = c}

\* the largest element of a non-empty set of numbers
Maximum(S) == CHOOSE m \in S : \A n \in S : n <= m

\* path.basename: what follows the last "/" (no path of the model ends in "/")
basename(p) ==
  IF Positions(p, "/") = {} THEN p
  ELSE SubSeq(p, Maximum(Positions(p, "/")) + 1, Len(p))

\* path.extname: from the last "." of the basename to its end; empty when
\* there is none or when the basename starts with its only "."
extname(p) ==
  LET b == basename(p)
      dots == Positions(b, ".")
  IN  IF dots = {} \/ Maximum(dots) = 1 THEN << >>
      ELSE SubSeq(b, Maximum(dots), Len(b))

\* process.cwd()
Cwd == << "/", "w" >>

\* path.resolve of one argument: an absolute path is itself, a relative one
\* is joined to the working directory (no path of the model has "." or ".."
\* segments, so nothing is normalised away)
resolve(p) == IF Len(p) > 0 /\ p[1] = "/" THEN p ELSE Cwd \o << "/" >> \o p

(***************************************************************************)
(* Buffer.toString('base64').                                              *)
(***************************************************************************)
Base64Alphabet ==
  UpperCase \o LowerCase \o
  << "0", "1", "2", "3", "4", "5", "6", "7", "8", "9", "+", "/" >>

\* the base64 character of a 6-bit value
B64(v) == Base64Alphabet[v + 1]

RECURSIVE toBase64(_)
toBase64(bytes) ==
  IF Len(bytes) = 0 THEN << >>
  ELSE IF Len(bytes) = 1 THEN
    << B64(bytes[1] \div 4), B64((bytes[1] % 4) * 16), "=", "=" >>
  ELSE IF Len(bytes) = 2 THEN
    << B64(bytes[1] \div 4),
       B64((bytes[1] % 4) * 16 + bytes[2] \div 16),
       B64((bytes[2] % 16) * 4), "=" >>
  ELSE
    << B64(bytes[1] \div 4),
       B64((bytes[1] % 4) * 16 + bytes[2] \div 16),
       B64((bytes[2] % 16) * 4 + bytes[3] \div 64),
       B64(bytes[3] % 64) >> \o toBase64(SubSeq(bytes, 4, Len(bytes)))

(***************************************************************************)
(* getMimeType.                                                            *)
(***************************************************************************)
OctetStream == "application/octet-stream"

\* the mimeTypes table: extension -> MIME type
mimeTypes ==
  << << << ".", "p", "d", "f" >>, "application/pdf" >>,
     << << ".", "j", "p", "g" >>, "image/jpeg" >>,
     << << ".", "j", "p", "e", "g" >>, "image/jpeg" >>,
     << << ".", "p", "n", "g" >>, "image/png" >>,
     << << ".", "g", "i", "f" >>, "image/gif" >>,
     << << ".", "w", "e", "b", "p" >>, "image/webp" >>,
     << << ".", "s", "v", "g" >>, "image/svg+xml" >>,
     << << ".", "t", "x", "t" >>, "text/plain" >>,
     << << ".", "m", "d" >>, "text/markdown" >>,
     << << ".", "j", "s", "o", "n" >>, "application/json" >>,
     << << ".", "x", "m", "l" >>, "application/xml" >>,
     << << ".", "c", "s", "v" >>, "text/csv" >>,
     << << ".", "d", "o", "c", "x" >>,
        "application/vnd.openxmlformats-officedocument.wordprocessingml.document" >>,
     << << ".", "x", "l", "s", "x" >>,
        "application/vnd.openxmlformats-officedocument.spreadsheetml.sheet" >>,
     << << ".", "p", "p", "t", "x" >>,
        "application/vnd.openxmlformats-officedocument.presentationml.presentation" >> >>

getMimeType(filePath) ==
  LET ext == toLowerCase(extname(filePath))
      hits == {k \in 1..Len(mimeTypes) : mimeTypes[k][1] = ext}
  IN  IF hits = {} THEN OctetStream
      ELSE mimeTypes[CHOOSE k \in hits : TRUE][2]

(***************************************************************************)
(* The file system the process reads (fs.readFileSync).                    *)
(***************************************************************************)
PathPdf == << "a", ".", "p", "d", "f" >>
PathMp3 == << "b", ".", "m", "p", "3" >>
PathPng == << "/", "d", "/", "C", ".", "P", "N", "G" >>
PathMissing == << "x", ".", "t", "x", "t" >>

\* fs.readFileSync(resolvedPath): the bytes of the file, or the error thrown
readFileSync(resolvedPath) ==
  IF resolvedPath = resolve(PathPdf)
    THEN [ok |-> TRUE, buffer |-> << 37, 80 >>]
  ELSE IF resolvedPath = resolve(PathMp3)
    THEN [ok |-> TRUE, buffer |-> << 73, 68, 51 >>]
  ELSE IF resolvedPath = resolve(PathPng)
    THEN [ok |-> TRUE, buffer |-> << 137 >>]
  ELSE [ok |-> FALSE, error |-> "Error: ENOENT: no such file or directory"]

(***************************************************************************)
(* File descriptors: the elements of args.files.                           *)
(***************************************************************************)
InlineTyped ==
  [content |-> << "a", "G", "V", "s", "b", "G", "8", "=" >>, type |-> "text/plain"]
InlinePlain == [content |-> << "Q", "U", "J", "D" >>]
InlineWithPath == [content |-> << "Q", "U", "J", "D" >>, path |-> PathPdf]
FilePdf == [path |-> PathPdf]
FileMp3 == [path |-> PathMp3]
FilePng == [path |-> PathPng]
FileMissing == [path |-> PathMissing]
\* neither content nor path
Malformed == [name |-> << "n", "o", "t", "e" >>]
\* the JSON value null
Null == [null |-> TRUE]

Descriptors ==
  {InlineTyped, InlinePlain, InlineWithPath, FilePdf, FileMp3, FilePng,
   FileMissing, Malformed, Null}

IsNull(file) == "null" \in DOMAIN file
\* file.content, file.path, file.name as conditions (a non-empty string)
hasContent(file) == "content" \in DOMAIN file /\ Len(file.content) > 0
hasPath(file) == "path" \in DOMAIN file /\ Len(file.path) > 0
hasName(file) == "name" \in DOMAIN file /\ Len(file.name) > 0
hasType(file) == "type" \in DOMAIN file /\ file.type # ""

\* a descriptor read from the file system: a path and no inline content
IsPathBased(file) == ~IsNull(file) /\ ~hasContent(file) /\ hasPath(file)
IsInline(file) == ~IsNull(file) /\ hasContent(file)
IsMalformed(file) == ~IsNull(file) /\ ~hasContent(file) /\ ~hasPath(file)
IsReadable(file) == IsPathBased(file) /\ readFileSync(resolve(file.path)).ok
fileSizeOf(file) == Len(readFileSync(resolve(file.path)).buffer)

(***************************************************************************)
(* processFiles: one iteration of its loop.  The result of an iteration is *)
(* what it appends to results.success and results.errors, the new          *)
(* totalSize, the paths it read, and how it leaves the iteration:          *)
(* "next" (falls through or continue), "break", or "throw".                *)
(***************************************************************************)
\* Math.round(bytes / 1024 / 1024)
roundMB(bytes) == (2 * bytes + 1048576) \div 2097152

\* line 282: file.type || (file.path ? this.getMimeType(file.path) : octet-stream)
mimeTypeOf(file) ==
  IF hasType(file) THEN file.type
  ELSE IF hasPath(file) THEN getMimeType(file.path)
  ELSE OctetStream

\* an inline descriptor whose length is added to the running total
inlineContentCounted(file, totalSize) ==
  [success |-> << [content |-> file.content,
                   type |-> mimeTypeOf(file),
                   name |-> IF hasName(file) THEN file.name
                            ELSE << "inline-content" >>] >>,
   errors |-> << >>, totalSize |-> totalSize + Len(file.content), reads |-> << >>,
   exit |-> "next"]

\* lines 237-239 and 282-288: an inline descriptor
inlineContent(file, totalSize) ==
  [success |-> << [content |-> file.content,
                   type |-> mimeTypeOf(file),
                   name |-> IF hasName(file) THEN file.name
                            ELSE << "inline-content" >>] >>,
   errors |-> << >>, totalSize |-> totalSize, reads |-> << >>, exit |-> "next"]

\* a read failure that stops the loop
readFailedBreak(file, error, totalSize) ==
  [success |-> << >>,
   errors |-> << [name |-> file.path,
                  error |-> << "Failed to read file: ", error >>] >>,
   totalSize |-> totalSize, reads |-> << resolve(file.path) >>, exit |-> "break"]

\* lines 268-273: readFileSync (or path.resolve) threw
readFailed(file, error, totalSize) ==
  [success |-> << >>,
   errors |-> << [name |-> file.path,
                  error |-> << "Failed to read file: ", error >>] >>,
   totalSize |-> totalSize, reads |-> << resolve(file.path) >>, exit |-> "next"]

\* a size failure that skips the file and goes on with the next one
sizeExceededContinue(file, newTotal, maxTotal) ==
  [success |-> << >>,
   errors |-> << [name |-> basename(resolve(file.path)),
                  error |-> << "Total file size exceeded" >>] >>,
   totalSize |-> newTotal, reads |-> << resolve(file.path) >>, exit |-> "next"]

\* a size failure after which the file is pushed to results.success all the same
sizeExceededFallThrough(file, newTotal, maxTotal) ==
  [success |-> << [content |-> toBase64(readFileSync(resolve(file.path)).buffer),
                   type |-> OctetStream,
                   name |-> basename(resolve(file.path))] >>,
   errors |-> << [name |-> basename(resolve(file.path)),
                  error |-> << "Total file size exceeded" >>] >>,
   totalSize |-> newTotal, reads |-> << resolve(file.path) >>, exit |-> "break"]

\* lines 261-267: the running total went over maxTotalFileSize
sizeExceeded(file, newTotal, maxTotal) ==
  [success |-> << >>,
   errors |-> << [name |-> basename(resolve(file.path)),
                  error |-> << "Total file size exceeded: ", ToString(roundMB(newTotal)),
                               "MB. Maximum allowed: ", ToString(roundMB(maxTotal)),
                               "MB" >>] >>,
   totalSize |-> newTotal, reads |-> << resolve(file.path) >>, exit |-> "break"]

\* lines 253-259 and 282-288: a file read within the ceiling
fileRead(file, buffer, newTotal) ==
  [success |-> << [content |-> toBase64(buffer),
                   type |-> mimeTypeOf(file),
                   name |-> basename(resolve(file.path))] >>,
   errors |-> << >>, totalSize |-> newTotal, reads |-> << resolve(file.path) >>,
   exit |-> "next"]

\* lines 275-280: neither content nor path
neitherGiven(file, totalSize) ==
  [success |-> << >>,
   errors |-> << [error |-> << "Either content or path must be provided for each file" >>] >>,
   totalSize |-> totalSize, reads |-> << >>, exit |-> "next"]

\* lines 237 and 289-294: reading file.content of null throws a TypeError; the
\* catch clause reads file.path of null and throws in its turn, out of processFiles
nullFile(totalSize) ==
  [success |-> << >>, errors |-> << >>, totalSize |-> totalSize, reads |-> << >>,
   exit |-> "throw",
   message |-> << "Cannot read properties of null (reading 'path')" >>]

\* a size check that rejects the file that brings the total to the ceiling
pathFileStrict(file, totalSize, maxTotal) ==
  LET r == readFileSync(resolve(file.path))
  IN  IF ~r.ok THEN readFailed(file, r.error, totalSize)
      ELSE LET fileSize == Len(r.buffer)
               newTotal == totalSize + fileSize
           IN  IF newTotal >= maxTotal
                 THEN sizeExceeded(file, newTotal, maxTotal)
                 ELSE fileRead(file, r.buffer, newTotal)

\* a size check made on the total before the file's bytes are added to it
pathFileCheckBefore(file, totalSize, maxTotal) ==
  LET r == readFileSync(resolve(file.path))
  IN  IF ~r.ok THEN readFailed(file, r.error, totalSize)
      ELSE LET fileSize == Len(r.buffer)
               newTotal == totalSize + fileSize
           IN  IF totalSize > maxTotal
                 THEN sizeExceeded(file, newTotal, maxTotal)
                 ELSE fileRead(file, r.buffer, newTotal)

\* lines 240-274: a descriptor with a path
pathFile(file, totalSize, maxTotal) ==
  LET r == readFileSync(resolve(file.path))
  IN  IF ~r.ok THEN readFailed(file, r.error, totalSize)
      ELSE LET fileSize == Len(r.buffer)
               newTotal == totalSize + fileSize
           IN  IF newTotal > maxTotal
                 THEN sizeExceeded(file, newTotal, maxTotal)
                 ELSE fileRead(file, r.buffer, newTotal)

\* lines 232-295: the body of the loop for one file
iteration(file, totalSize, maxTotal) ==
  IF IsNull(file) THEN nullFile(totalSize)
  ELSE IF hasContent(file) THEN inlineContent(file, totalSize)
  ELSE IF hasPath(file) THEN pathFile(file, totalSize, maxTotal)
  ELSE neitherGiven(file, totalSize)

(***************************************************************************)
(* Tool requests (request.params of a CallToolRequest).                    *)
(***************************************************************************)
ConvertTool == "convert_pdf_to_markdown"
GenerateTool == "generate_content"
ToolNames == {ConvertTool, GenerateTool, "delete_everything"}

\* the files arrays of a request
Batches == UNION {[1..n -> Descriptors] : n \in 0..MaxBatch}

Prompts == {"summarize"}

\* request.params.arguments left out by the caller
Undefined == [undefined |-> TRUE]

\* the system prompts a caller may add (README, the system_prompt parameter)
SystemPrompts == {"be terse"}

\* the arguments objects: prompt and files are both optional, and so is the
\* system prompt, given here with no file or with one
Arguments ==
  {Undefined, [other |-> TRUE]}
  \cup {[prompt |-> p] : p \in Prompts}
  \cup {[files |-> b] : b \in Batches}
  \cup {[prompt |-> p, files |-> b] : p \in Prompts, b \in Batches}
  \cup {[prompt |-> p, system_prompt |-> sp] : p \in Prompts, sp \in SystemPrompts}
  \cup {[prompt |-> p, system_prompt |-> sp, files |-> << d >>] :
          p \in Prompts, sp \in SystemPrompts, d \in Descriptors}

IsUndefined(args) == "undefined" \in DOMAIN args
hasPrompt(args) == "prompt" \in DOMAIN args /\ args.prompt # ""
hasFiles(args) == "files" \in DOMAIN args
hasSystemPrompt(args) == "system_prompt" \in DOMAIN args /\ args.system_prompt # ""

\* the default of line 305
DefaultPrompt ==
  "Convert this PDF to well-formatted Markdown, preserving structure and formatting. Return only the Markdown content without any additional text."

\* this.defaultModel, line 24
DefaultModel == "gemini-2.5-flash"

(***************************************************************************)
(* Responses of the CallTool handler.                                      *)
(***************************************************************************)
\* a catch clause that returns the bare message, unflagged
errorResponseBare(message) == [content |-> message]

\* lines 181-190: the catch clause of the handler
errorResponse(message) == [content |-> << "Error: " >> \o message, isError |-> TRUE]

\* lines 346-353 and 398-405: response.text || 'No content generated'
textResponse(text) ==
  [content |-> << IF text = "" THEN "No content generated" ELSE text >>]

\* a count check that lets one file too many through
tooManyFilesOffByOne(files, limit) == Len(files) > limit + 1

\* line 221: the count check at the head of processFiles
tooManyFiles(files, limit) == Len(files) > limit

\* line 222
tooManyMessage(files, limit) ==
  << "Too many files: ", ToString(Len(files)), ". Maximum allowed: ", ToString(limit) >>

\* lines 312-314 and 372-374: one line of the aggregated message
errorLine(err) ==
  IF "name" \in DOMAIN err /\ Len(err.name) > 0
    THEN err.name \o << ": " >> \o err.error
    ELSE err.error

\* lines 312-314: errors.map(...).join('\n')
RECURSIVE joinLines(_)
joinLines(errs) ==
  IF Len(errs) = 0 THEN << >>
  ELSE IF Len(errs) = 1 THEN errorLine(errs[1])
  ELSE errorLine(errs[1]) \o << "\n" >> \o joinLines(Tail(errs))

\* a check of the errors list that lets a single failure pass
ingestionFailedTwice(errs) == Len(errs) > 1

\* lines 311 and 371: processedFiles.errors.length > 0
ingestionFailed(errs) == Len(errs) > 0

\* lines 315 and 375
fileErrorsMessage(errs) == << "File processing errors:\n" >> \o joinLines(errs)

(***************************************************************************)
(* The request handed to genAI.models.generateContent.                     *)
(***************************************************************************)
\* the file parts in reverse order
filePartsReversed(success) ==
  [k \in 1..Len(success) |->
     [inlineData |-> [mimeType |-> success[Len(success) + 1 - k].type,
                      data |-> success[Len(success) + 1 - k].content]]]

\* lines 323-330 and 379-386: one inlineData part per processed file
fileParts(success) ==
  [k \in 1..Len(success) |->
     [inlineData |-> [mimeType |-> success[k].type, data |-> success[k].content]]]

\* lines 305, 307 and 332-335: contents[0] of convert_pdf_to_markdown
convertPromptPart(args, success) ==
  LET prompt == IF hasPrompt(args) THEN args.prompt ELSE DefaultPrompt
  IN  IF Len(success) > 1
        THEN [text |-> << prompt, "\n\nProcessing ", ToString(Len(success)),
                          " files. Please provide the converted Markdown for each file with clear section headers indicating the source file name." >>]
        ELSE [text |-> << prompt >>]

\* line 365: contents[0] of generate_content is args.prompt, undefined when left out
generatePromptPart(args) ==
  IF "prompt" \in DOMAIN args THEN [text |-> << args.prompt >>] ELSE Undefined

\* lines 338-344 and 390-396 (args.model is not varied: the model is the default)
generationRequest(tool, args, success) ==
  [model |-> DefaultModel,
   contents |-> << IF tool = ConvertTool THEN convertPromptPart(args, success)
                   ELSE generatePromptPart(args) >> \o fileParts(success),
   config |-> [maxOutputTokens |-> 8192]]

\* what the backend answers: response.text, possibly empty
BackendTexts == {"", "# Title"}

\* what the backend call throws
BackendErrors == {"Error: 503 Service Unavailable"}

(***************************************************************************)
(* State.                                                                  *)
(***************************************************************************)
VARIABLES
  maxFiles,          \* this.maxFiles
  maxTotalFileSize,  \* this.maxTotalFileSize
  timeout,           \* this.timeout
  pc,                \* where each invocation of the handler stands
  request,           \* its request.params: [name, arguments]
  index,             \* processFiles: how many files the loop has taken
  totalSize,         \* processFiles: totalSize
  success,           \* processFiles: results.success
  errors,            \* processFiles: results.errors
  reads,             \* history: the paths given to fs.readFileSync, in order
  successOf,         \* history: for each entry of success, the index of its file
  errorOf,           \* history: for each entry of errors, the index of its file
  sent,              \* the requests handed to genAI.models.generateContent
  elapsed,           \* clock ticks since the backend call was made
  answered,          \* history: what the backend call resolved or rejected with
  responses          \* the responses the handler returned

config == << maxFiles, maxTotalFileSize, timeout >>
locals == << request, index, totalSize, success, errors, reads, successOf, errorOf >>
vars == << maxFiles, maxTotalFileSize, timeout, pc, request, index, totalSize,
           success, errors, reads, successOf, errorOf, sent, elapsed, answered,
           responses >>

NoRequest == [name |-> "", arguments |-> Undefined]

\* the constructor, lines 20-26: the configuration is read once
Init ==
  /\ maxFiles = EnvMaxFiles
  /\ maxTotalFileSize \in {EnvMaxTotalFileSize - 1, EnvMaxTotalFileSize}
  /\ timeout = EnvTimeout
  /\ pc = [i \in Invs |-> "idle"]
  /\ request = [i \in Invs |-> NoRequest]
  /\ index = [i \in Invs |-> 0]
  /\ totalSize = [i \in Invs |-> 0]
  /\ success = [i \in Invs |-> << >>]
  /\ errors = [i \in Invs |-> << >>]
  /\ reads = [i \in Invs |-> << >>]
  /\ successOf = [i \in Invs |-> << >>]
  /\ errorOf = [i \in Invs |-> << >>]
  /\ sent = [i \in Invs |-> << >>]
  /\ elapsed = [i \in Invs |-> 0]
  /\ answered = [i \in Invs |-> << >>]
  /\ responses = [i \in Invs |-> << >>]

filesOf(i) == request[i].arguments.files
toolOf(i) == request[i].name

(***************************************************************************)
(* Steps of one invocation.                                                *)
(***************************************************************************)
\* the handler returns a response (lines 175, 177 or 182-190)
Return(i, response) ==
  /\ pc' = [pc EXCEPT ![i] = "done"]
  /\ responses' = [responses EXCEPT ![i] = Append(@, response)]

\* lines 337-344 and 389-396: the call of genAI.models.generateContent
CallBackend(i, tool, args, files) ==
  /\ sent' = [sent EXCEPT ![i] = Append(@, generationRequest(tool, args, files))]
  /\ elapsed' = [elapsed EXCEPT ![i] = 0]
  /\ pc' = [pc EXCEPT ![i] = "backend"]
  /\ UNCHANGED << answered, responses >>

\* lines 220-230: processFiles is entered; an empty array returns at once
EnterProcessFiles(i, files) ==
  IF tooManyFiles(files, maxFiles)
    THEN /\ Return(i, errorResponse(tooManyMessage(files, maxFiles)))
         /\ UNCHANGED << sent, elapsed, answered >>
    ELSE /\ pc' = [pc EXCEPT ![i] = IF Len(files) = 0 THEN "processed" ELSE "processFiles"]
         /\ UNCHANGED << sent, elapsed, answered, responses >>

\* lines 300-309: convert_pdf_to_markdown up to its first await
convertPdfToMarkdown(i, args) ==
  IF IsUndefined(args)
    THEN /\ Return(i, errorResponse(<< "Cannot read properties of undefined (reading 'prompt')" >>))
         /\ UNCHANGED << sent, elapsed, answered >>
  ELSE IF ~hasFiles(args)
    THEN /\ Return(i, errorResponse(<< "Cannot read properties of undefined (reading 'length')" >>))
         /\ UNCHANGED << sent, elapsed, answered >>
  ELSE EnterProcessFiles(i, args.files)

\* lines 359-369 and 389-396: generate_content up to its first await
generateContent(i, args) ==
  IF IsUndefined(args)
    THEN /\ Return(i, errorResponse(<< "Cannot read properties of undefined (reading 'model')" >>))
         /\ UNCHANGED << sent, elapsed, answered >>
  ELSE IF ~hasFiles(args) \/ Len(args.files) = 0
    THEN CallBackend(i, GenerateTool, args, << >>)
  ELSE EnterProcessFiles(i, args.files)

\* lines 169-175: the handler is called for convert_pdf_to_markdown, with
\* arguments among inputs
CallConvert(i, inputs) ==
  /\ pc[i] = "idle"
  /\ \E args \in inputs :
       /\ request' = [request EXCEPT ![i] = [name |-> ConvertTool, arguments |-> args]]
       /\ convertPdfToMarkdown(i, args)
  /\ UNCHANGED << config, index, totalSize, success, errors, reads, successOf, errorOf >>

\* lines 169-177: the handler is called for generate_content
CallGenerate(i, inputs) ==
  /\ pc[i] = "idle"
  /\ \E args \in inputs :
       /\ request' = [request EXCEPT ![i] = [name |-> GenerateTool, arguments |-> args]]
       /\ generateContent(i, args)
  /\ UNCHANGED << config, index, totalSize, success, errors, reads, successOf, errorOf >>

\* lines 169-179: the handler is called with a name that is neither tool
CallUnknown(i, inputs) ==
  /\ pc[i] = "idle"
  /\ \E name \in ToolNames \ {ConvertTool, GenerateTool}, args \in inputs :
       /\ request' = [request EXCEPT ![i] = [name |-> name, arguments |-> args]]
       /\ Return(i, errorResponse(<< "Unknown tool: ", name >>))
  /\ UNCHANGED << config, index, totalSize, success, errors, reads, successOf, errorOf,
                  sent, elapsed, answered >>

\* a loop whose running total is a field of the server, shared by all invocations
ProcessFileSharedTotal(i) ==
  /\ pc[i] = "processFiles"
  /\ index[i] < Len(filesOf(i))
  /\ LET k == index[i] + 1
         shared == CHOOSE t \in {totalSize[j] : j \in Invs} :
                     \A j \in Invs : totalSize[j] <= t
         r == iteration(filesOf(i)[k], shared, maxTotalFileSize)
     IN  /\ index' = [index EXCEPT ![i] = k]
         /\ totalSize' = [j \in Invs |-> r.totalSize]
         /\ success' = [success EXCEPT ![i] = @ \o r.success]
         /\ errors' = [errors EXCEPT ![i] = @ \o r.errors]
         /\ reads' = [reads EXCEPT ![i] = @ \o r.reads]
         /\ successOf' = [successOf EXCEPT ![i] = @ \o [n \in 1..Len(r.success) |-> k]]
         /\ errorOf' = [errorOf EXCEPT ![i] = @ \o [n \in 1..Len(r.errors) |-> k]]
         /\ IF r.exit = "throw"
              THEN Return(i, errorResponse(r.message))
              ELSE /\ pc' = [pc EXCEPT ![i] =
                               IF r.exit = "break" \/ k = Len(filesOf(i))
                                 THEN "processed" ELSE "processFiles"]
                   /\ UNCHANGED responses
  /\ UNCHANGED << config, request, sent, elapsed, answered >>

\* lines 232-295: the loop of processFiles takes its next file
ProcessFile(i) ==
  /\ pc[i] = "processFiles"
  /\ index[i] < Len(filesOf(i))
  /\ LET k == index[i] + 1
         r == iteration(filesOf(i)[k], totalSize[i], maxTotalFileSize)
     IN  /\ index' = [index EXCEPT ![i] = k]
         /\ totalSize' = [totalSize EXCEPT ![i] = r.totalSize]
         /\ success' = [success EXCEPT ![i] = @ \o r.success]
         /\ errors' = [errors EXCEPT ![i] = @ \o r.errors]
         /\ reads' = [reads EXCEPT ![i] = @ \o r.reads]
         /\ successOf' = [successOf EXCEPT ![i] = @ \o [n \in 1..Len(r.success) |-> k]]
         /\ errorOf' = [errorOf EXCEPT ![i] = @ \o [n \in 1..Len(r.errors) |-> k]]
         /\ IF r.exit = "throw"
              THEN Return(i, errorResponse(r.message))
              ELSE /\ pc' = [pc EXCEPT ![i] =
                               IF r.exit = "break" \/ k = Len(filesOf(i))
                                 THEN "processed" ELSE "processFiles"]
                   /\ UNCHANGED responses
  /\ UNCHANGED << config, request, sent, elapsed, answered >>

\* lines 311-344 and 371-396: processFiles has returned its results
AfterProcessFiles(i) ==
  /\ pc[i] = "processed"
  /\ IF ingestionFailed(errors[i])
       THEN /\ Return(i, errorResponse(fileErrorsMessage(errors[i])))
            /\ UNCHANGED << sent, elapsed, answered >>
     ELSE IF toolOf(i) = ConvertTool /\ Len(success[i]) = 0
       THEN /\ Return(i, errorResponse(<< "No files were successfully processed" >>))
            /\ UNCHANGED << sent, elapsed, answered >>
     ELSE CallBackend(i, toolOf(i), request[i].arguments, success[i])
  /\ UNCHANGED << config, locals >>

\* lines 346-353 and 398-405: the backend call resolves
BackendReturns(i, text) ==
  /\ pc[i] = "backend"
  /\ Return(i, textResponse(text))
  /\ answered' = [answered EXCEPT ![i] = Append(@, [text |-> text])]
  /\ UNCHANGED << config, locals, sent, elapsed >>

\* lines 354-356 and 406-408: the backend call rejects
BackendThrows(i, error) ==
  /\ pc[i] = "backend"
  /\ Return(i, errorResponse(<< "Gemini API error: ", error >>))
  /\ answered' = [answered EXCEPT ![i] = Append(@, [error |-> error])]
  /\ UNCHANGED << config, locals, sent, elapsed >>

\* lines 338 and 390: time passes while the handler awaits the backend; nothing
\* in the handler arms a timer with this.timeout (the clock stops one tick
\* after the timeout to keep it bounded)
Tick(i) ==
  /\ pc[i] = "backend"
  /\ elapsed[i] <= timeout
  /\ elapsed' = [elapsed EXCEPT ![i] = @ + 1]
  /\ UNCHANGED << config, pc, locals, sent, answered, responses >>

\* the response is delivered and the invocation's locals are discarded
Release(i) ==
  /\ pc[i] = "done"
  /\ pc' = [pc EXCEPT ![i] = "idle"]
  /\ request' = [request EXCEPT ![i] = NoRequest]
  /\ index' = [index EXCEPT ![i] = 0]
  /\ totalSize' = [totalSize EXCEPT ![i] = 0]
  /\ success' = [success EXCEPT ![i] = << >>]
  /\ errors' = [errors EXCEPT ![i] = << >>]
  /\ reads' = [reads EXCEPT ![i] = << >>]
  /\ successOf' = [successOf EXCEPT ![i] = << >>]
  /\ errorOf' = [errorOf EXCEPT ![i] = << >>]
  /\ sent' = [sent EXCEPT ![i] = << >>]
  /\ elapsed' = [elapsed EXCEPT ![i] = 0]
  /\ answered' = [answered EXCEPT ![i] = << >>]
  /\ responses' = [responses EXCEPT ![i] = << >>]
  /\ UNCHANGED config

\* every other invocation is idle
Alone(i) == \A j \in Invs \ {i} : pc[j] = "idle"

\* the server is given one request at a time
Next ==
  \E i \in Invs :
    \/ Alone(i) /\ CallConvert(i, Arguments)
    \/ Alone(i) /\ CallGenerate(i, Arguments)
    \/ Alone(i) /\ CallUnknown(i, Arguments)
    \/ ProcessFile(i)
    \/ AfterProcessFiles(i)
    \/ \E text \in BackendTexts : BackendReturns(i, text)
    \/ \E error \in BackendErrors : BackendThrows(i, error)
    \/ Tick(i)
    \/ Release(i)

Spec == Init /\ [][Next]_vars

\* the files arrays of the requests that are served concurrently
ConcurrentBatches ==
  { << FilePdf, FilePng >>, << FilePng, FileMp3 >>, << FileMp3 >>,
    << InlinePlain, FileMp3 >>, << FileMissing, FilePdf >> }

\* the arguments of the requests that are served concurrently
ConcurrentArguments == {[prompt |-> p, files |-> b] : p \in Prompts, b \in ConcurrentBatches}

\* requests are taken while others are in flight: the handler is async, and
\* an invocation yields at each await (lines 241-242, 309, 338, 369, 390)
NextConcurrent ==
  \E i \in Invs :
    \/ CallConvert(i, ConcurrentArguments)
    \/ CallGenerate(i, ConcurrentArguments)
    \/ CallUnknown(i, ConcurrentArguments)
    \/ ProcessFile(i)
    \/ AfterProcessFiles(i)
    \/ \E text \in BackendTexts : BackendReturns(i, text)
    \/ \E error \in BackendErrors : BackendThrows(i, error)
    \/ Tick(i)
    \/ Release(i)

SpecConcurrent == Init /\ [][NextConcurrent]_vars

(***************************************************************************)
(* Properties.                                                             *)
(***************************************************************************)
KnownTool(i) == toolOf(i) \in {ConvertTool, GenerateTool}

\* invocation i called processFiles with an array
Ingesting(i) ==
  /\ pc[i] # "idle"
  /\ KnownTool(i)
  /\ ~IsUndefined(request[i].arguments)
  /\ hasFiles(request[i].arguments)

\* processFiles of invocation i has returned its results (it neither threw
\* nor is still in its loop)
Returned(i) ==
  /\ Ingesting(i)
  /\ pc[i] \in {"processed", "backend", "done"}
  /\ index[i] > 0
  /\ ~IsNull(filesOf(i)[index[i]])

\* s is strictly increasing
Increasing(s) == \A m, n \in 1..Len(s) : m < n => s[m] < s[n]

\* failure n of errs as the message shows it: its name, if any, then its reason
Shown(errs, n) ==
  IF "name" \in DOMAIN errs[n]
    THEN errs[n].name \o << ": " >> \o errs[n].error
    ELSE errs[n].error

\* the failures of errs listed from the first to the last, one per line
RECURSIVE Listed(_, _)
Listed(errs, n) ==
  IF n = 0 THEN << >>
  ELSE IF n = 1 THEN Shown(errs, 1)
  ELSE Listed(errs, n - 1) \o << "\n" >> \o Shown(errs, n)

\* C1: when processFiles returns a non-empty errors list, no request is ever
\* handed to the backend, even if some files succeeded, and the invocation
\* ends in one error response whose message lists every failure, name and
\* reason, in the order the failures were met.
AllOrNothing ==
  \A i \in Invs :
    (Returned(i) /\ Len(errors[i]) > 0) =>
      /\ sent[i] = << >>
      /\ Increasing(errorOf[i])
      /\ pc[i] \in {"processed", "done"}
      /\ pc[i] = "done" =>
           responses[i] =
             << [content |-> << "Error: ", "File processing errors:\n" >>
                             \o Listed(errors[i], Len(errors[i])),
                 isError |-> TRUE] >>

\* C1 witness: an invocation ended with one file taken and another failed
AllOrNothingWitness ==
  \E i \in Invs :
    /\ Returned(i) /\ pc[i] = "done"
    /\ Len(errors[i]) > 0 /\ Len(success[i]) > 0
    /\ Len(responses[i]) = 1

\* C2: a batch longer than maxFiles fails with the count error before any
\* file is read and without a partial result; the invocation answers with an
\* error and the backend is never called.
CountLimitFastFail ==
  \A i \in Invs :
    (Ingesting(i) /\ Len(filesOf(i)) > maxFiles) =>
      /\ pc[i] = "done"
      /\ reads[i] = << >> /\ index[i] = 0
      /\ success[i] = << >> /\ errors[i] = << >>
      /\ sent[i] = << >>
      /\ responses[i] =
           << [content |-> << "Error: ", "Too many files: ", ToString(Len(filesOf(i))),
                              ". Maximum allowed: ", ToString(maxFiles) >>,
               isError |-> TRUE] >>

\* C2 witness: an invocation with more files than maxFiles, one of them readable
CountLimitWitness ==
  \E i \in Invs :
    /\ Ingesting(i) /\ Len(filesOf(i)) > maxFiles
    /\ \E k \in 1..Len(filesOf(i)) : IsReadable(filesOf(i)[k])
    /\ pc[i] = "done"

\* the raw byte length of the first n files of a batch of readable files
RECURSIVE PrefixSize(_, _)
PrefixSize(files, n) ==
  IF n = 0 THEN 0 ELSE PrefixSize(files, n - 1) + fileSizeOf(files[n])

\* the batch of invocation i is made of readable path-based files
AllReadable(i) == \A k \in 1..Len(filesOf(i)) : IsReadable(filesOf(i)[k])

\* the running total of the batch of i first exceeds the ceiling at file k
CrossesAt(i, k) ==
  /\ k \in 1..Len(filesOf(i))
  /\ PrefixSize(filesOf(i), k) > maxTotalFileSize
  /\ \A m \in 1..(k - 1) : PrefixSize(filesOf(i), m) <= maxTotalFileSize

\* C3: for a batch of readable path-based files whose running total first
\* exceeds maxTotalFileSize at file k, processFiles returns as successes
\* exactly the files before k, in order, as failures one entry, for file k,
\* and no file after k is read or listed.
SizeCeilingAbort ==
  \A i \in Invs :
    (Returned(i) /\ AllReadable(i)) =>
      \A k \in 1..Len(filesOf(i)) :
        CrossesAt(i, k) =>
          /\ successOf[i] = [n \in 1..(k - 1) |-> n]
          /\ \A n \in 1..(k - 1) :
               /\ success[i][n].name = basename(resolve(filesOf(i)[n].path))
               /\ success[i][n].content =
                    toBase64(readFileSync(resolve(filesOf(i)[n].path)).buffer)
          /\ errorOf[i] = << k >>
          /\ errors[i][1].name = basename(resolve(filesOf(i)[k].path))
          /\ reads[i] = [n \in 1..k |-> resolve(filesOf(i)[n].path)]
          /\ index[i] = k

\* C3 witness: processFiles returned at a file that crossed the ceiling, with
\* a file left after it
SizeCeilingWitness ==
  \E i \in Invs :
    /\ Returned(i) /\ AllReadable(i)
    /\ \E k \in 1..(Len(filesOf(i)) - 1) : CrossesAt(i, k)

\* the raw byte length of the path-based files among the first n of a batch
\* whose path-based files are readable
RECURSIVE PathSize(_, _)
PathSize(files, n) ==
  IF n = 0 THEN 0
  ELSE PathSize(files, n - 1)
       + (IF IsPathBased(files[n]) THEN fileSizeOf(files[n]) ELSE 0)

\* every path-based file of the batch of i is readable and their cumulative
\* size stays within the ceiling
ReadableWithinCeiling(i) ==
  /\ \A k \in 1..Len(filesOf(i)) :
       IsPathBased(filesOf(i)[k]) => IsReadable(filesOf(i)[k])
  /\ PathSize(filesOf(i), Len(filesOf(i))) <= maxTotalFileSize

\* every descriptor of the batch of i carries content or a path
WellFormed(i) ==
  \A k \in 1..Len(filesOf(i)) :
    IsInline(filesOf(i)[k]) \/ IsPathBased(filesOf(i)[k])

\* every file of the batch of i succeeded, in input order
AllSucceeded(i) ==
  /\ errors[i] = << >>
  /\ Len(success[i]) = Len(filesOf(i))
  /\ successOf[i] = [n \in 1..Len(filesOf(i)) |-> n]

\* processFiles of invocation i is over: it returned or it threw
Ingested(i) ==
  /\ Ingesting(i)
  /\ Len(filesOf(i)) <= maxFiles
  /\ pc[i] \in {"processed", "backend", "done"}

\* C4 as claimed: for a batch within the count limit whose path-based files
\* are all readable and within the ceiling, processFiles returns no errors and
\* one success per input file, in input order.
FullSuccessAsClaimed ==
  \A i \in Invs :
    (Returned(i) /\ ReadableWithinCeiling(i)) => AllSucceeded(i)

\* C4 as amended: for a batch within the count limit in which every
\* descriptor carries content or a path, and whose path-based files are all
\* readable and within the ceiling, processFiles returns no errors and one
\* success per input file, in input order.
FullSuccess ==
  \A i \in Invs :
    (Ingested(i) /\ WellFormed(i) /\ ReadableWithinCeiling(i)) =>
      /\ AllSucceeded(i)
      /\ index[i] = Len(filesOf(i))

\* C4 witness: a full batch with both kinds of file, the path-based ones
\* filling the ceiling exactly
FullSuccessWitness ==
  \E i \in Invs :
    /\ Ingested(i) /\ WellFormed(i) /\ ReadableWithinCeiling(i)
    /\ Len(filesOf(i)) = maxFiles
    /\ PathSize(filesOf(i), Len(filesOf(i))) = maxTotalFileSize
    /\ Len(success[i]) = maxFiles

\* C5: once the configured timeout has elapsed on a backend call, the call is
\* no longer in flight: the handler has abandoned it and answered.
TimeoutAbandonsCall ==
  \A i \in Invs : pc[i] = "backend" => elapsed[i] <= timeout

\* the loop of invocation i is about to read a path-based file that cannot be read
AtUnreadable(i) ==
  /\ pc[i] = "processFiles"
  /\ index[i] < Len(filesOf(i))
  /\ IsPathBased(filesOf(i)[index[i] + 1])
  /\ ~IsReadable(filesOf(i)[index[i] + 1])

\* C6: a failed read adds one failure, named after the descriptor's path, and
\* nothing to successes; it leaves the running total as it was and the loop
\* goes on with the next descriptor, if there is one.
ReadFailureContinues ==
  [][\A i \in Invs :
       (AtUnreadable(i) /\ index'[i] # index[i]) =>
         /\ index'[i] = index[i] + 1
         /\ Len(errors'[i]) = Len(errors[i]) + 1
         /\ SubSeq(errors'[i], 1, Len(errors[i])) = errors[i]
         /\ errors'[i][Len(errors'[i])].name = filesOf(i)[index[i] + 1].path
         /\ errorOf'[i] = Append(errorOf[i], index[i] + 1)
         /\ success'[i] = success[i]
         /\ totalSize'[i] = totalSize[i]
         /\ responses'[i] = responses[i]
         /\ pc'[i] = IF index[i] + 1 < Len(filesOf(i)) THEN "processFiles"
                     ELSE "processed"]_vars

\* C6 witness: a file was taken after an earlier read had failed
ReadFailureWitness ==
  \E i \in Invs :
    /\ Ingesting(i)
    /\ Len(errors[i]) = 1 /\ Len(success[i]) = 1
    /\ ~IsReadable(filesOf(i)[errorOf[i][1]])
    /\ IsPathBased(filesOf(i)[errorOf[i][1]])
    /\ errorOf[i][1] < successOf[i][1]

\* how many entries of s are equal to k
Count(s, k) == Cardinality({n \in 1..Len(s) : s[n] = k})

\* the loop of invocation i has not thrown
NotThrown(i) ==
  /\ Ingesting(i)
  /\ Len(filesOf(i)) <= maxFiles
  /\ index[i] > 0 => ~IsNull(filesOf(i)[index[i]])

\* the last failure of invocation i is the size ceiling, met at its last file taken
StoppedAtCeiling(i) ==
  /\ Len(errors[i]) > 0
  /\ errorOf[i][Len(errorOf[i])] = index[i]
  /\ Head(errors[i][Len(errors[i])].error) = "Total file size exceeded: "
  /\ IsReadable(filesOf(i)[index[i]])

\* C7: when processFiles returns, and at every point of its loop, each
\* descriptor taken so far has exactly one entry in exactly one of successes
\* and failures, no other descriptor has any, and the descriptors taken are
\* all of them or those up to the one at which the ceiling was exceeded.
Partition ==
  \A i \in Invs :
    NotThrown(i) =>
      /\ Len(success[i]) = Len(successOf[i])
      /\ Len(errors[i]) = Len(errorOf[i])
      /\ Len(success[i]) + Len(errors[i]) = index[i]
      /\ \A k \in 1..index[i] : Count(successOf[i], k) + Count(errorOf[i], k) = 1
      /\ \A k \in (index[i] + 1)..Len(filesOf(i)) :
           Count(successOf[i], k) + Count(errorOf[i], k) = 0
      /\ Returned(i) => (index[i] = Len(filesOf(i)) \/ StoppedAtCeiling(i))

\* C7 witness: processFiles returned at the file that crossed the ceiling,
\* with a descriptor never taken after it
PartitionWitness ==
  \E i \in Invs :
    /\ Returned(i) /\ StoppedAtCeiling(i)
    /\ index[i] < Len(filesOf(i))

\* the content type the claim gives a path: by its extension, .pdf, .png and
\* .mp3 as listed, the generic binary type for any other
ClaimedInference(path) ==
  LET ext == toLowerCase(extname(path))
  IN  IF ext = << ".", "p", "d", "f" >> THEN "application/pdf"
      ELSE IF ext = << ".", "p", "n", "g" >> THEN "image/png"
      ELSE IF ext = << ".", "m", "p", "3" >> THEN "audio/mpeg"
      ELSE "application/octet-stream"

\* the content type the claim gives a descriptor
ClaimedType(file) ==
  IF hasType(file) THEN file.type
  ELSE IF hasPath(file) THEN ClaimedInference(file.path)
  ELSE "application/octet-stream"

\* C8: the content type of a successful file is its declared type when it has
\* one; otherwise, with a path, the type of its extension (.pdf is
\* application/pdf, .png is image/png, .mp3 is audio/mpeg, an unknown one is
\* application/octet-stream); otherwise application/octet-stream.  It is never
\* empty.
ContentTypeResolution ==
  \A i \in Invs :
    \A n \in 1..Len(success[i]) :
      /\ success[i][n].type = ClaimedType(filesOf(i)[successOf[i][n]])
      /\ success[i][n].type # ""

\* the backend call of invocation i resolved with a text
BackendAnswered(i) == Len(answered[i]) = 1 /\ "text" \in DOMAIN answered[i][1]

\* C9: an invocation never returns more than one response, it has returned
\* exactly one when it is over, whatever the tool name and the arguments, and
\* unless the backend answered with a text that response is flagged isError
\* and its text starts with "Error: ".
FailureContained ==
  \A i \in Invs :
    /\ pc[i] \in {"idle", "processFiles", "processed", "backend", "done"}
    /\ Len(responses[i]) = (IF pc[i] = "done" THEN 1 ELSE 0)
    /\ (pc[i] = "done" /\ ~BackendAnswered(i)) =>
         /\ "isError" \in DOMAIN responses[i][1]
         /\ responses[i][1].isError = TRUE
         /\ Head(responses[i][1].content) = "Error: "
         /\ Len(responses[i][1].content) > 1

\* C9 witness: an invocation over after the backend call threw
FailureContainedWitness ==
  \E i \in Invs :
    /\ pc[i] = "done"
    /\ Len(answered[i]) = 1 /\ "error" \in DOMAIN answered[i][1]
    /\ Len(responses[i]) = 1

\* after its first part, request q of invocation i has one inline-data part
\* per successful file, in the order of success
FilePartsInOrder(i, q) ==
  /\ Len(q.contents) = 1 + Len(success[i])
  /\ \A k \in 1..Len(success[i]) :
       q.contents[k + 1] =
         [inlineData |-> [mimeType |-> success[i][k].type,
                          data |-> success[i][k].content]]

\* C10 as claimed: every request sent to the backend, by either tool, has as
\* its first part exactly the caller's prompt, then one inline-data part per
\* successful file in the order of success.
RequestShapeAsClaimed ==
  \A i \in Invs :
    \A r \in 1..Len(sent[i]) :
      /\ hasPrompt(request[i].arguments) =>
           sent[i][r].contents[1] = [text |-> << request[i].arguments.prompt >>]
      /\ FilePartsInOrder(i, sent[i][r])

\* the prompt convert_pdf_to_markdown works with: the caller's or the default
ConvertPrompt(i) ==
  IF hasPrompt(request[i].arguments) THEN request[i].arguments.prompt
  ELSE DefaultPrompt

\* C10 as amended: a request sent by generate_content has as its first part
\* exactly the caller's prompt; a request sent by convert_pdf_to_markdown has
\* as its first part the caller's prompt, or the default conversion prompt
\* when the caller gave none, extended by the "Processing N files" instruction
\* when more than one file was processed.  In both the first part is followed
\* by one inline-data part per successful file, in the order of success, with
\* that file's content type and base64 content; a generate_content request
\* without files holds the prompt alone, and convert_pdf_to_markdown sends no
\* request without files.
RequestShape ==
  \A i \in Invs :
    \A r \in 1..Len(sent[i]) :
      LET q == sent[i][r]
          n == Len(success[i])
      IN  /\ FilePartsInOrder(i, q)
          /\ toolOf(i) = GenerateTool =>
               q.contents[1] =
                 (IF "prompt" \in DOMAIN request[i].arguments
                    THEN [text |-> << request[i].arguments.prompt >>]
                    ELSE Undefined)
          /\ toolOf(i) = ConvertTool =>
               /\ n >= 1
               /\ DOMAIN q.contents[1] = {"text"}
               /\ Head(q.contents[1].text) = ConvertPrompt(i)
               /\ n = 1 => Len(q.contents[1].text) = 1
               /\ n > 1 =>
                    /\ Len(q.contents[1].text) = 4
                    /\ q.contents[1].text[2] = "\n\nProcessing "
                    /\ q.contents[1].text[3] = ToString(n)

\* C10 witness: convert_pdf_to_markdown sent a request with two different files
RequestShapeWitness ==
  \E i \in Invs :
    /\ toolOf(i) = ConvertTool
    /\ Len(sent[i]) = 1
    /\ Len(success[i]) = 2
    /\ success[i][1] # success[i][2]
    /\ hasPrompt(request[i].arguments)

\* request q carries a system instruction, at its top level or in its config
HasSystemInstruction(q) ==
  \/ "systemInstruction" \in DOMAIN q
  \/ "systemInstruction" \in DOMAIN q.config

\* C11: a request sent to the backend carries a system-instruction block
\* exactly when the invocation supplied a system prompt; without one the
\* field is absent.
SystemInstructionIffSupplied ==
  \A i \in Invs :
    \A r \in 1..Len(sent[i]) :
      HasSystemInstruction(sent[i][r]) <=> hasSystemPrompt(request[i].arguments)

\* exactly one of path and content is present on the descriptor
ExactlyOneSource(file) ==
  /\ ~IsNull(file)
  /\ hasPath(file) # hasContent(file)

\* C12: a descriptor enters successes only if exactly one of path and content
\* is present on it; a descriptor with neither yields exactly one failure,
\* with the generic reason and no display name, and the loop goes on.
DescriptorShape ==
  \A i \in Invs :
    /\ \A n \in 1..Len(success[i]) :
         ExactlyOneSource(filesOf(i)[successOf[i][n]])
    /\ \A n \in 1..Len(errors[i]) :
         IsMalformed(filesOf(i)[errorOf[i][n]]) =>
           /\ errors[i][n] =
                [error |-> << "Either content or path must be provided for each file" >>]
           /\ Count(errorOf[i], errorOf[i][n]) = 1
           /\ Count(successOf[i], errorOf[i][n]) = 0
           /\ errorOf[i][n] < Len(filesOf(i)) => pc[i] = "processFiles" \/ index[i] > errorOf[i][n]

\* what becomes of each file from the k-th on when the loop of processFiles
\* runs on files with running total `total`: "success", "failure", "thrown"
\* (the loop threw there) or "untaken" (the loop had stopped before)
RECURSIVE LoopOutcomes(_, _, _, _)
LoopOutcomes(files, k, total, ceiling) ==
  IF k > Len(files) THEN << >>
  ELSE LET r == iteration(files[k], total, ceiling)
           o == IF Len(r.success) > 0 THEN "success"
                ELSE IF Len(r.errors) > 0 THEN "failure"
                ELSE "thrown"
       IN  IF r.exit = "next"
             THEN << o >> \o LoopOutcomes(files, k + 1, r.totalSize, ceiling)
             ELSE << o >> \o [n \in 1..(Len(files) - k) |-> "untaken"]

\* what becomes of each file when processFiles is called on files alone
RunOutcomes(files, limit, ceiling) ==
  IF Len(files) > limit THEN [n \in 1..Len(files) |-> "untaken"]
  ELSE LoopOutcomes(files, 1, 0, ceiling)

\* what became of file k in invocation i
Observed(i, k) ==
  IF Count(successOf[i], k) > 0 THEN "success"
  ELSE IF Count(errorOf[i], k) > 0 THEN "failure"
  ELSE IF k <= index[i] THEN "thrown"
  ELSE "untaken"

\* the outcomes, in order, of the path-based files among the first n of files
RECURSIVE PathOutcomes(_, _, _)
PathOutcomes(files, outcomes, n) ==
  IF n = 0 THEN << >>
  ELSE PathOutcomes(files, outcomes, n - 1)
       \o (IF IsPathBased(files[n]) THEN << outcomes[n] >> ELSE << >>)

\* files without its inline descriptors
RECURSIVE WithoutInline(_)
WithoutInline(files) ==
  IF Len(files) = 0 THEN << >>
  ELSE (IF IsInline(Head(files)) THEN << >> ELSE << Head(files) >>)
       \o WithoutInline(Tail(files))

\* the path-based files of invocation i fared as they do in the batch without
\* the inline descriptors
SameWithoutInline(i) ==
  LET files == filesOf(i)
      bare == WithoutInline(files)
  IN  PathOutcomes(files, [k \in 1..Len(files) |-> Observed(i, k)], Len(files))
      = PathOutcomes(bare, RunOutcomes(bare, maxFiles, maxTotalFileSize), Len(bare))

\* the raw byte length of the files read among the first n of files
RECURSIVE BytesRead(_, _)
BytesRead(files, n) ==
  IF n = 0 THEN 0
  ELSE BytesRead(files, n - 1)
       + (IF IsReadable(files[n]) THEN fileSizeOf(files[n]) ELSE 0)

\* processFiles of invocation i is over, whichever way it ended
Over(i) == Ingesting(i) /\ pc[i] \in {"processed", "backend", "done"}

\* C13 as claimed: inline descriptors add nothing to the running total and
\* never fail on size, and in every batch the path-based descriptors fare as
\* they do in the batch without the inline descriptors.
InlineExemptAsClaimed ==
  \A i \in Invs :
    Over(i) =>
      /\ totalSize[i] = BytesRead(filesOf(i), index[i])
      /\ \A n \in 1..Len(errors[i]) : ~IsInline(filesOf(i)[errorOf[i][n]])
      /\ SameWithoutInline(i)

\* C13 as amended: inline descriptors add nothing to the running total and
\* never fail on size, and in every batch within the maximum file count the
\* path-based descriptors fare as they do in the batch without the inline
\* descriptors (inline descriptors do count toward the file count).
InlineExempt ==
  \A i \in Invs :
    (Ingesting(i) /\ Len(filesOf(i)) <= maxFiles) =>
      /\ totalSize[i] = BytesRead(filesOf(i), index[i])
      /\ \A n \in 1..Len(errors[i]) : ~IsInline(filesOf(i)[errorOf[i][n]])
      /\ Over(i) => SameWithoutInline(i)

\* C13 witness: a path-based file succeeded after an inline descriptor whose
\* length, had it been counted, would have taken the total over the ceiling
InlineExemptWitness ==
  \E i \in Invs :
    /\ Over(i) /\ Len(filesOf(i)) = 2
    /\ IsInline(filesOf(i)[1]) /\ IsReadable(filesOf(i)[2])
    /\ Len(filesOf(i)[1].content) + fileSizeOf(filesOf(i)[2]) > maxTotalFileSize
    /\ successOf[i] = << 1, 2 >>

\* results and running total of processFiles run alone on files, after its
\* loop has taken n of them
RECURSIVE AloneAfter(_, _, _)
AloneAfter(files, n, ceiling) ==
  IF n = 0 THEN [success |-> << >>, errors |-> << >>, totalSize |-> 0, exit |-> "next"]
  ELSE LET before == AloneAfter(files, n - 1, ceiling)
           r == iteration(files[n], before.totalSize, ceiling)
       IN  [success |-> before.success \o r.success,
            errors |-> before.errors \o r.errors,
            totalSize |-> r.totalSize,
            exit |-> r.exit]

\* invocation i stands where it would stand had it run alone
AsIfAlone(i) ==
  LET alone == AloneAfter(filesOf(i), index[i], maxTotalFileSize)
      whole == AloneAfter(filesOf(i), Len(filesOf(i)), maxTotalFileSize)
  IN  /\ success[i] = alone.success
      /\ errors[i] = alone.errors
      /\ totalSize[i] = alone.totalSize
      /\ pc[i] = "processFiles" => (index[i] < Len(filesOf(i)) /\ alone.exit = "next")
      /\ Over(i) => (index[i] = Len(filesOf(i)) \/ alone.exit # "next")
      /\ Len(sent[i]) <= 1
      /\ Len(sent[i]) = 1 =>
           sent[i][1] = generationRequest(toolOf(i), request[i].arguments, whole.success)

\* what invocation i holds
Holds(i) ==
  << pc[i], request[i], index[i], totalSize[i], success[i], errors[i], reads[i],
     sent[i], elapsed[i], answered[i], responses[i] >>

\* a step changes what one invocation holds at most, and never the configuration
OneAtATime ==
  /\ config' = config
  /\ \A i, j \in Invs : (Holds(i)' # Holds(i) /\ Holds(j)' # Holds(j)) => i = j

\* C14: with several invocations in flight, their steps interleaved, each
\* invocation's ingestion result, running total and composed request are what
\* they are when it runs alone; a step touches the state of one invocation
\* only, and the configuration read at start is never modified.
Isolation ==
  /\ [](\A i \in Invs : (Ingesting(i) /\ Len(filesOf(i)) <= maxFiles) => AsIfAlone(i))
  /\ [][OneAtATime]_vars

\* C14 witness: two invocations are in the loop of processFiles at once, each
\* with its own running total
IsolationWitness ==
  /\ \A i \in Invs : pc[i] = "processFiles" /\ index[i] = 1 /\ totalSize[i] > 0
  /\ \E i, j \in Invs : totalSize[i] # totalSize[j]

\* the number of bytes that a base64 text encodes
rawLength(data) ==
  (Len(data) \div 4) * 3 - Cardinality({k \in 1..Len(data) : data[k] = "="})

\* the raw byte length of the path-read files among the first n successes of i
RECURSIVE SuccessBytes(_, _)
SuccessBytes(i, n) ==
  IF n = 0 THEN 0
  ELSE SuccessBytes(i, n - 1)
       + (IF IsPathBased(filesOf(i)[successOf[i][n]])
            THEN rawLength(success[i][n].content) ELSE 0)

\* the raw byte length of the path-read files among the first n file parts of
\* the request that i sent
RECURSIVE SentBytes(_, _)
SentBytes(i, n) ==
  IF n = 0 THEN 0
  ELSE SentBytes(i, n - 1)
       + (IF IsPathBased(filesOf(i)[successOf[i][n]])
            THEN rawLength(sent[i][1].contents[n + 1].inlineData.data) ELSE 0)

\* file k of i is among the successes
Accepted(i, k) == \E n \in 1..Len(successOf[i]) : successOf[i][n] = k

\* the successes of i stay within the ceiling, in the loop and at the backend
WithinCeiling(i) ==
  /\ SuccessBytes(i, Len(success[i])) <= maxTotalFileSize
  /\ Len(sent[i]) = 1 =>
       /\ Len(sent[i][1].contents) = Len(success[i]) + 1
       /\ SentBytes(i, Len(success[i])) <= maxTotalFileSize
  /\ \A k \in 1..index[i] :
       IsReadable(filesOf(i)[k]) =>
         /\ BytesRead(filesOf(i), k) > maxTotalFileSize => ~Accepted(i, k)
         /\ BytesRead(filesOf(i), k) <= maxTotalFileSize => Accepted(i, k)

\* a step of the loop over a file whose read fails leaves the total as it was
FailedReadAddsNothing ==
  \A i \in Invs :
    (/\ pc[i] = "processFiles"
     /\ index'[i] = index[i] + 1
     /\ IsPathBased(filesOf(i)[index'[i]])
     /\ ~IsReadable(filesOf(i)[index'[i]])) =>
      /\ totalSize'[i] = totalSize[i]
      /\ success'[i] = success[i]

\* C15: at every point of the loop of processFiles, and in every request sent
\* to the backend, the raw bytes of the path-read files among the successes
\* sum to at most maxTotalFileSize; a file read that takes the running total
\* above the ceiling is not among the successes, one that takes it to the
\* ceiling or below is; a file whose read fails adds nothing to the total.
SizeCeilingInvariant ==
  /\ [](\A i \in Invs : Ingesting(i) => WithinCeiling(i))
  /\ [][FailedReadAddsNothing]_vars

\* C15 witness: a request is at the backend with two path-read files whose
\* bytes sum to the ceiling exactly
SizeCeilingInvariantWitness ==
  \E i \in Invs :
    /\ pc[i] = "backend"
    /\ Len(sent[i]) = 1
    /\ Len(success[i]) = 2
    /\ \A k \in 1..2 : IsPathBased(filesOf(i)[k])
    /\ SentBytes(i, 2) = maxTotalFileSize

====
